---- MODULE Spec2Model ----
(***************************************************************************)
(* Model of execute.py: the resumable day-by-day, page-by-page crawl       *)
(* engine newssite_metadata_mining, the extractor dispatch                 *)
(* process_switcher and the JSON checkpoint file it loads and rewrites.    *)
(***************************************************************************)
EXTENDS Integers, Sequences, FiniteSets, TLC

\* ------------------------------------------------------------------ bounds
\* Wall-clock days that may elapse after START_DATE while the model runs.
MaxDays == 2
\* Highest page number of a date for which the site still lists articles.
MaxPages == 2
\* Most articles an index page lists.
MaxPerPage == 1
\* The calls for one page are counted up to this number.
MaxAttempts == 2
\* Most tokens of a relative-time text.
MaxTokens == 3
\* Greatest number written in a relative-time text.
MaxOffset == 12

\* ------------------------------------------------------- time and strings
SecondsPerDay == 24 * 60 * 60

\* datetime.datetime(y, m, d) as days since 1970-01-01 (proleptic Gregorian).
DaysFromCivil(ymd) ==
    LET y   == IF ymd[2] <= 2 THEN ymd[1] - 1 ELSE ymd[1]
        era == y \div 400
        yoe == y - era * 400
        mp  == IF ymd[2] > 2 THEN ymd[2] - 3 ELSE ymd[2] + 9
        doy == (153 * mp + 2) \div 5 + ymd[3] - 1
        doe == yoe * 365 + yoe \div 4 - yoe \div 100 + doy
    IN  era * 146097 + doe - 719468

\* datetime.datetime(*START_DATE).timestamp(), the clock taken as UTC.
Timestamp(ymd) == DaysFromCivil(ymd) * SecondsPerDay

DigitChars == <<"0", "1", "2", "3", "4", "5", "6", "7", "8", "9">>

\* ord(c) for the characters a day-key is written with.
CharOrd(c) ==
    CASE c = "." -> 46
      [] c = "0" -> 48 [] c = "1" -> 49 [] c = "2" -> 50 [] c = "3" -> 51
      [] c = "4" -> 52 [] c = "5" -> 53 [] c = "6" -> 54 [] c = "7" -> 55
      [] c = "8" -> 56 [] c = "9" -> 57

DigitValue(c) == CharOrd(c) - 48

RECURSIVE IntStr(_)
IntStr(n) ==
    IF n < 10 THEN <<DigitChars[n + 1]>>
    ELSE IntStr(n \div 10) \o <<DigitChars[(n % 10) + 1]>>

\* float.__repr__ of a whole-second timestamp, as json.dump writes a float key.
FloatRepr(ts) == IntStr(ts) \o <<".", "0">>

RECURSIVE IntPart(_, _)
IntPart(s, acc) ==
    IF s = <<>> \/ Head(s) = "." THEN acc
    ELSE IntPart(Tail(s), acc * 10 + DigitValue(Head(s)))

\* float(key) of a day-key string (every key written has the fraction ".0").
ParseFloat(s) == IntPart(s, 0)

\* Python's str comparison a < b: by code point, a proper prefix is smaller.
RECURSIVE StrLess(_, _)
StrLess(a, b) ==
    IF b = <<>> THEN FALSE
    ELSE IF a = <<>> THEN TRUE
    ELSE IF Head(a) # Head(b) THEN CharOrd(Head(a)) < CharOrd(Head(b))
    ELSE StrLess(Tail(a), Tail(b))

RECURSIVE InsertDescending(_, _)
InsertDescending(x, sorted) ==
    IF sorted = <<>> THEN <<x>>
    ELSE IF StrLess(Head(sorted), x) THEN <<x>> \o sorted
    ELSE <<Head(sorted)>> \o InsertDescending(x, Tail(sorted))

\* list.sort(reverse=True) on a list of str.
RECURSIVE SortReverse(_)
SortReverse(list) ==
    IF list = <<>> THEN <<>>
    ELSE InsertDescending(Head(list), SortReverse(Tail(list)))

\* ------------------------------------------------------------- dictionary
\* A Python dict in insertion order: a sequence of [k |-> key, v |-> value].
\* A key is a str (as json.load makes it) or a float (current_date.timestamp()).
StrKey(s) == [t |-> "str", s |-> s, f |-> 0]
FloatKey(ts) == [t |-> "float", s |-> <<>>, f |-> ts]

DictHas(dict, key) == \E n \in 1..Len(dict) : dict[n].k = key
DictGet(dict, key) == dict[CHOOSE n \in 1..Len(dict) : dict[n].k = key].v

\* dict[key] = value
DictSet(dict, key, value) ==
    IF DictHas(dict, key)
    THEN [n \in 1..Len(dict) |->
            IF dict[n].k = key THEN [k |-> key, v |-> value] ELSE dict[n]]
    ELSE Append(dict, [k |-> key, v |-> value])

\* ------------------------------------------------------------------- json
\* The key json.dump writes: a str as it is, a float by float.__repr__.
JsonKey(key) == IF key.t = "str" THEN key.s ELSE FloatRepr(key.f)

\* Mutant of JsonDump: only the entries added by this run are written.
JsonDump_NewOnly(dict) ==
    LET IsNew(e) == e.k.t = "float"
        new == SelectSeq(dict, IsNew)
    IN  [n \in 1..Len(new) |-> [k |-> JsonKey(new[n].k), v |-> new[n].v]]

\* json.dump(dict): the members in dict order, a member per dict entry.
JsonDump(dict) == [n \in 1..Len(dict) |-> [k |-> JsonKey(dict[n].k), v |-> dict[n].v]]

\* json.load of an object: str keys, a repeated member name keeps the last value.
RECURSIVE JsonLoadFrom(_, _)
JsonLoadFrom(members, dict) ==
    IF members = <<>> THEN dict
    ELSE JsonLoadFrom(Tail(members),
                      DictSet(dict, StrKey(Head(members).k), Head(members).v))

JsonLoad(members) == JsonLoadFrom(members, <<>>)

\* ---------------------------------------------------------- configuration
Sources == {"detik", "kompas", "bisnis", "kontan", "cnbc"}

\* The START_DATE the entry script passes for each site.
ConfiguredStartDate(source) ==
    CASE source = "kompas" -> <<2013, 5, 1>>
      [] source = "detik"  -> <<2005, 1, 1>>
      [] source = "bisnis" -> <<2010, 12, 1>>
      [] source = "kontan" -> <<2011, 1, 2>>
      [] source = "cnbc"   -> <<2018, 1, 8>>

\* A value of the START_DATE keyword argument before the epoch second
\* 1000000000, where the decimal width of a timestamp grows by one digit.
EarlyStartDate == <<2001, 9, 9>>

\* The START_DATE arguments newssite_metadata_mining is run with: the entry
\* script's, and for the default SOURCE also the early one.
StartDates(source) ==
    {ConfiguredStartDate(source)} \cup (IF source = "detik" THEN {EarlyStartDate} ELSE {})

PageSleep(source) == IF source \in {"detik", "bisnis"} THEN 10 ELSE 4
DateSleep(source) == IF source \in {"detik", "bisnis"} THEN 15 ELSE 8

\* time.sleep(5) of the two except clauses of the page loop.
RETRY_SLEEP == 5
\* range(5) of kontan_processor's retry loop, and its time.sleep(10).
KONTAN_RETRIES == 5
KONTAN_RETRY_SLEEP == 10

\* ------------------------------------------------------------- extractors
\* An article record of the model: what the index lists at position pos of
\* page `page` of day `date`.
Record(date, page, pos) == [date |-> date, page |-> page, pos |-> pos]
\* An index page that lists n articles.
Listing(date, page, n) == [pos \in 1..n |-> Record(date, page, pos)]

\* What one call of process_switcher gives the engine:
\*   kind "list": `contents` is a list of dicts (possibly empty);
\*   kind "tags": `contents` is a non-empty list of markup elements;
\*   kind "raise": exception `exc` leaves process_switcher.
\* `extractors` are the processors invoked, `fetches` the page fetches issued,
\* `exhausted` says kontan's bounded retry ran out, `waited` is the time the
\* extractor slept between its fetches.
Outcome(kind, contents, exc, extractors, fetches, exhausted) ==
    [kind |-> kind, contents |-> contents, exc |-> exc,
     extractors |-> extractors, fetches |-> fetches, exhausted |-> exhausted,
     waited |-> 0]

\* The article lists a page may hold: none past MaxPages.
Listings(date, page) ==
    {Listing(date, page, n) : n \in (IF page <= MaxPages THEN 0..MaxPerPage ELSE {0})}

\* Exceptions the field accesses of an extractor's loop body can raise.
ParseExceptions(extractor) ==
    CASE extractor = "detik_general_processor" ->
            {"TypeError", "KeyError", "IndexError", "ValueError"}
      [] extractor = "kompasdotcom_processor" ->
            {"AttributeError", "TypeError", "KeyError", "ValueError"}
      [] extractor = "bisnisdotcom_processor" ->
            {"TypeError", "KeyError", "ValueError"}
      [] extractor = "kontan_processor" ->
            {"AttributeError", "TypeError", "KeyError"}
      [] extractor = "cnbcindonesia_processor" ->
            {"AttributeError", "TypeError", "KeyError", "IndexError", "ValueError"}
      [] extractor = "cnbcindonesia_alt_processor" ->
            {"AttributeError", "TypeError", "KeyError", "IndexError", "ValueError"}

\* An extractor that fetches once and parses every listed entry.
PlainExtractor(extractor, date, page) ==
    {Outcome("list", l, "", <<extractor>>, 1, FALSE) : l \in Listings(date, page)}
    \cup {Outcome("raise", <<>>, e, <<extractor>>, 1, FALSE) : e \in ParseExceptions(extractor)}

detik_general_processor(date, page) ==
    PlainExtractor("detik_general_processor", date, page)

kompasdotcom_processor(date, page) ==
    PlainExtractor("kompasdotcom_processor", date, page)

\* bisnis: no listing container -> the empty find_all result; a container whose
\* entries parse -> their records; an AttributeError while parsing (the
\* "Tidak ada berita" placeholder) -> content_length, the non-empty list of
\* container elements.
bisnisdotcom_processor(date, page) ==
    PlainExtractor("bisnisdotcom_processor", date, page)
    \cup {Outcome("tags", <<"list-news">>, "", <<"bisnisdotcom_processor">>, 1, FALSE)}

\* The statuses (res.ok) of kontan's first fetch and of its retries.
StatusRuns == [1..(KONTAN_RETRIES + 1) -> BOOLEAN]

\* Mutant of KontanFetches: the retry loop has no break, every retry is made.
KontanFetches_NoBreak(oks) ==
    IF oks[1] THEN 1 ELSE KONTAN_RETRIES + 1

\* The fetches kontan_processor issues for the statuses `oks`, and whether it
\* ends with an OK response: the first fetch, then up to KONTAN_RETRIES more
\* until one is OK.
KontanFetches(oks) ==
    IF oks[1] THEN 1
    ELSE IF \E n \in 2..(KONTAN_RETRIES + 1) : oks[n]
         THEN CHOOSE n \in 2..(KONTAN_RETRIES + 1) :
                  oks[n] /\ \A m \in 2..(n - 1) : ~oks[m]
         ELSE KONTAN_RETRIES + 1

KontanOk(oks) == \E n \in 1..(KONTAN_RETRIES + 1) : oks[n]

\* time.sleep(10) after every retry that is not OK.
KontanWaited(oks) ==
    KONTAN_RETRY_SLEEP * Cardinality({n \in 2..KontanFetches(oks) : ~oks[n]})

\* Mutant of KontanResult: `if not res_ok: return []` is left out, the body of
\* the last response is parsed whatever its status.
KontanResult_NoGiveUp(oks, parsed) ==
    [parsed EXCEPT !.fetches = KontanFetches(oks), !.waited = KontanWaited(oks),
                   !.exhausted = ~KontanOk(oks)]

\* kontan_processor's result for the statuses `oks` and what the body parses to.
KontanResult(oks, parsed) ==
    IF ~KontanOk(oks)
    THEN [Outcome("list", <<>>, "", <<"kontan_processor">>, KontanFetches(oks), TRUE)
            EXCEPT !.waited = KontanWaited(oks)]
    ELSE [parsed EXCEPT !.fetches = KontanFetches(oks), !.waited = KontanWaited(oks)]

kontan_processor(date, page) ==
    {KontanResult(oks, parsed) :
        oks \in StatusRuns, parsed \in PlainExtractor("kontan_processor", date, page)}

cnbcindonesia_processor(date, page) ==
    PlainExtractor("cnbcindonesia_processor", date, page)

cnbcindonesia_alt_processor(date, page) ==
    PlainExtractor("cnbcindonesia_alt_processor", date, page)

\* cnbc: the primary extractor is tried on every call; its IndexError is caught
\* and the alternate extractor is called for the same page (a second fetch).
CnbcSwitch(primary, alt) ==
    IF primary.kind = "raise" /\ primary.exc = "IndexError"
    THEN [alt EXCEPT !.extractors = primary.extractors \o alt.extractors,
                     !.fetches = primary.fetches + alt.fetches]
    ELSE primary

process_switcher(source, date, page) ==
    CASE source = "detik"  -> detik_general_processor(date, page)
      [] source = "kompas" -> kompasdotcom_processor(date, page)
      [] source = "bisnis" -> bisnisdotcom_processor(date, page)
      [] source = "kontan" -> kontan_processor(date, page)
      [] source = "cnbc"   ->
            {CnbcSwitch(p, a) : p \in cnbcindonesia_processor(date, page),
                                a \in cnbcindonesia_alt_processor(date, page)}

\* ------------------------------------------------------ date normalizing
\* Mutant of month_formatter: the branch for 'Okt' is missing.
month_formatter_NoOkt(month_text) ==
    IF month_text = "Mei" THEN "May"
    ELSE IF month_text = "Agu" THEN "Aug"
    ELSE IF month_text = "Des" THEN "Dec"
    ELSE month_text

\* month_formatter: the if/elif chain on month_text.
month_formatter(month_text) ==
    IF month_text = "Mei" THEN "May"
    ELSE IF month_text = "Agu" THEN "Aug"
    ELSE IF month_text = "Okt" THEN "Oct"
    ELSE IF month_text = "Des" THEN "Dec"
    ELSE month_text

\* Month tokens an index page may show: the Indonesian abbreviations, the
\* English ones, and spellings that are neither.
MonthTokens ==
    {"Jan", "Feb", "Mar", "Apr", "Mei", "Jun", "Jul", "Agu", "Sep", "Okt", "Nov", "Des",
     "May", "Aug", "Oct", "Dec", "mei", "Agustus", "Oktober", "Desember", "MEI", "Ags", ""}

\* search_keys of kontan_processor, each a str (a sequence of characters).
search_keys ==
    << <<"T", "a", "h", "u", "n">>, <<"B", "u", "l", "a", "n">>, <<"H", "a", "r", "i">>,
       <<"J", "a", "m">>, <<"M", "e", "n", "i", "t">> >>

\* Tokens of kontan's relative-time text: the unit keywords, numbers, and the
\* words around them.
TimeTokens ==
    {search_keys[k] : k \in 1..5}
    \cup {IntStr(1), IntStr(MaxOffset)}
    \cup {<<"l", "a", "l", "u">>}

\* The texts split(' ') may give, up to MaxTokens tokens.
TimeTexts == UNION {[1..n -> TimeTokens] : n \in 0..MaxTokens}

\* int(token): the value of a str of decimal digits, ValueError for the other
\* tokens of TimeTokens.
PyInt(token) ==
    IF token # <<>> /\ \A n \in 1..Len(token) : \E d \in 1..10 : token[n] = DigitChars[d]
    THEN [exc |-> "", value |-> IntPart(token, 0)]
    ELSE [exc |-> "ValueError", value |-> 0]

\* list.index(key) + 1 (the position counted from 1), 0 when index raises
\* ValueError.
ListIndex(list, key) ==
    IF \E n \in 1..Len(list) : list[n] = key
    THEN CHOOSE n \in 1..Len(list) : list[n] = key /\ \A m \in 1..(n - 1) : list[m] # key
    ELSE 0

\* list[index - 1] for the position n = index + 1: index 0 gives list[-1],
\* the last element.
ListBefore(list, n) == IF n = 1 THEN list[Len(list)] ELSE list[n - 1]

\* The body of `for search_key in search_keys`: the try block and the
\* except ValueError that appends 0.
TimedeltaComponent(list, search_key) ==
    IF ListIndex(list, search_key) = 0 THEN 0
    ELSE IF PyInt(ListBefore(list, ListIndex(list, search_key))).exc = "ValueError" THEN 0
    ELSE PyInt(ListBefore(list, ListIndex(list, search_key))).value

\* timedelta_constructor after the loop over search_keys.
TimedeltaConstructor(list) == [k \in 1..5 |-> TimedeltaComponent(list, search_keys[k])]

\* ------------------------------------------------------------------ state
VARIABLES
    SOURCE,                 \* keyword argument SOURCE
    START_DATE,             \* keyword argument START_DATE, <<year, month, day>>
    clock,                  \* whole days the wall clock is past START_DATE
    file,                   \* article_metadata_file on disk
    pc,                     \* where the process is
    crash,                  \* the exception that ended the process, or ""
    article_metadata_dict,
    start_date,             \* as a timestamp
    day_range_days,         \* day_range.days
    i,                      \* the loop variable of the date loop
    current_date,           \* as a timestamp
    page_number,
    total_articles,
    sleeping,               \* the argument of the time.sleep in progress, or 0
    pagesSeen,              \* the non-empty lists returned for current_date, in order
    lastCall,               \* the process_switcher call the engine is acting on
    lastSaved,              \* the members of the latest completed json.dump
    attempts,               \* calls made for (current_date, page_number), up to MaxAttempts
    altUsed,                \* cnbcindonesia_alt_processor was called in this run
    month_text,             \* the token month_formatter is first called with
    month_out,              \* what month_formatter returned, call after call
    date_list_slice_temp,   \* kontan's relative-time text, split
    timedelta_constructor,  \* the five offsets, <<>> before they are computed
    completed               \* the dates a run has paginated to the end and saved

vars == <<SOURCE, START_DATE, clock, file, pc, crash, article_metadata_dict,
          start_date, day_range_days, i, current_date, page_number,
          total_articles, sleeping, pagesSeen, lastCall, lastSaved, attempts,
          altUsed, month_text, month_out, date_list_slice_temp,
          timedelta_constructor, completed>>

normalizer == <<month_text, month_out, date_list_slice_temp, timedelta_constructor>>

\* No date text is in hand.
NoText ==
    /\ month_text = ""
    /\ month_out = <<>>
    /\ date_list_slice_temp = <<>>
    /\ timedelta_constructor = <<>>

config == <<SOURCE, START_DATE>>
locals == <<article_metadata_dict, start_date, day_range_days, i, current_date,
            page_number, total_articles>>

\* datetime.datetime.now(), as a timestamp.
Now == Timestamp(START_DATE) + clock * SecondsPerDay

NoFile == [exists |-> FALSE, complete |-> FALSE, members |-> <<>>]

NoCall == [date |-> 0, page |-> 0, out |-> Outcome("none", <<>>, "", <<>>, 0, FALSE)]

\* The process is not running: its variables hold nothing.
Stopped ==
    /\ article_metadata_dict' = <<>>
    /\ start_date' = 0
    /\ day_range_days' = 0
    /\ i' = 0
    /\ current_date' = 0
    /\ page_number' = 0
    /\ total_articles' = 0
    /\ sleeping' = 0
    /\ pagesSeen' = <<>>
    /\ lastCall' = NoCall
    /\ attempts' = 0
    /\ altUsed' = FALSE

Init ==
    /\ SOURCE \in Sources
    /\ START_DATE \in StartDates(SOURCE)
    /\ clock = 1
    /\ file = NoFile
    /\ pc = "start"
    /\ crash = ""
    /\ article_metadata_dict = <<>>
    /\ start_date = 0
    /\ day_range_days = 0
    /\ i = 0
    /\ current_date = 0
    /\ page_number = 0
    /\ total_articles = 0
    /\ sleeping = 0
    /\ pagesSeen = <<>>
    /\ lastCall = NoCall
    /\ lastSaved = <<>>
    /\ completed = {}
    /\ attempts = 0
    /\ altUsed = FALSE
    /\ NoText

\* ----------------------------------------------------------------- engine
\* all_date_list = list(dict.keys()); all_date_list.sort(reverse=True);
\* all_date_list[0]: the key the resume date is read from.
ResumeKey(dict) == SortReverse([n \in 1..Len(dict) |-> dict[n].k.s])[1]

\* The try/except that reads the progress file: the exception that leaves it
\* (or ""), the dictionary and the start date.
ReadProgress(f, startDate) ==
    IF ~f.exists
    THEN \* open raises FileNotFoundError: caught
         [exc |-> "", dict |-> <<>>, start |-> Timestamp(startDate)]
    ELSE IF ~f.complete
    THEN \* json.load raises json.JSONDecodeError, a ValueError: not caught
         [exc |-> "JSONDecodeError", dict |-> <<>>, start |-> 0]
    ELSE IF JsonLoad(f.members) = <<>>
    THEN \* all_date_list[0] raises IndexError: caught
         [exc |-> "", dict |-> <<>>, start |-> Timestamp(startDate)]
    ELSE [exc |-> "", dict |-> JsonLoad(f.members),
          start |-> ParseFloat(ResumeKey(JsonLoad(f.members)))]

\* (end_date - start_date).days
DayRange(end, start) == (end - start) \div SecondsPerDay

\* Mutant of EnterDate: the end of the range is read from the clock again at
\* every date.
EnterDate_MovingEnd(n, start, days) ==
    /\ i' = n
    /\ pagesSeen' = <<>>
    /\ sleeping' = 0
    /\ lastCall' = NoCall
    /\ attempts' = 0
    /\ IF n < DayRange(Now, start)
       THEN /\ current_date' = start + n * SecondsPerDay
            /\ page_number' = 1
            /\ total_articles' = 0
            /\ pc' = "page"
       ELSE /\ UNCHANGED <<current_date, page_number, total_articles>>
            /\ pc' = "finished"

\* Mutant of EnterDate: the dates are counted from the day after the start
\* date (timedelta(days=i + 1)).
EnterDate_FromNextDay(n, start, days) ==
    /\ i' = n
    /\ pagesSeen' = <<>>
    /\ sleeping' = 0
    /\ lastCall' = NoCall
    /\ attempts' = 0
    /\ IF n < days
       THEN /\ current_date' = start + (n + 1) * SecondsPerDay
            /\ page_number' = 1
            /\ total_articles' = 0
            /\ pc' = "page"
       ELSE /\ UNCHANGED <<current_date, page_number, total_articles>>
            /\ pc' = "finished"

\* The head of the date loop for loop index n: the per-date variables, or the
\* end of the function when range(day_range.days) is used up.
EnterDate(n, start, days) ==
    /\ i' = n
    /\ pagesSeen' = <<>>
    /\ sleeping' = 0
    /\ lastCall' = NoCall
    /\ attempts' = 0
    /\ IF n < days
       THEN /\ current_date' = start + n * SecondsPerDay
            /\ page_number' = 1
            /\ total_articles' = 0
            /\ pc' = "page"
       ELSE /\ UNCHANGED <<current_date, page_number, total_articles>>
            /\ pc' = "finished"

\* Process start: read the progress file, fix the date range, enter the loop.
Load ==
    /\ pc = "start"
    /\ LET got == ReadProgress(file, START_DATE) IN
         IF got.exc # ""
         THEN /\ pc' = "crashed"
              /\ crash' = got.exc
              /\ UNCHANGED <<locals, sleeping, pagesSeen, lastCall, attempts>>
         ELSE /\ article_metadata_dict' = got.dict
              /\ start_date' = got.start
              /\ day_range_days' = DayRange(Now, got.start)
              /\ EnterDate(0, got.start, DayRange(Now, got.start))
              /\ crash' = ""
    /\ UNCHANGED <<config, normalizer, completed, clock, file, lastSaved, altUsed>>

\* Mutant of Exhausted: a page with a single entry is taken for the last one.
Exhausted_ShortPage(contents) == Len(contents) <= 1

\* if len(contents) == 0
Exhausted(contents) == Len(contents) = 0

\* The exceptions the page loop catches.
Retryable(exc) == exc \in {"ValueError", "TypeError"}

\* Mutant of PageAfterFailure: the except clause falls through to
\* page_number += 1.
PageAfterFailure_Advance(page) == page + 1

\* page_number after a caught exception: `continue` skips page_number += 1.
PageAfterFailure(page) == page

\* Mutant of StorePage: the dictionary is made anew with the date's entry
\* (article_metadata_dict = {current_date.timestamp(): [...]}).
StorePage_Fresh(dict, date, contents) == <<[k |-> FloatKey(date), v |-> contents]>>

\* article_metadata_dict[current_date.timestamp()] = [] and the appends of
\* the records of one page.
StorePage(dict, date, contents) == DictSet(dict, FloatKey(date), contents)

Called(out) == [date |-> current_date, page |-> page_number, out |-> out]

\* One more call for the page in hand.
Counted(n) == IF n < MaxAttempts THEN n + 1 ELSE n

UsesAlt(out) == \E n \in 1..Len(out.extractors) : out.extractors[n] = "cnbcindonesia_alt_processor"

\* A page attempt whose result is an empty list: the date is exhausted, the
\* loop is left and the inter-date sleep starts.
PageEmpty ==
    /\ pc = "page"
    /\ \E out \in process_switcher(SOURCE, current_date, page_number) :
         /\ out.kind = "list" /\ Exhausted(out.contents)
         /\ lastCall' = Called(out)
         /\ altUsed' = (altUsed \/ UsesAlt(out))
    /\ pc' = "date_sleep"
    /\ sleeping' = DateSleep(SOURCE)
    /\ attempts' = Counted(attempts)
    /\ UNCHANGED <<config, normalizer, completed, clock, file, crash, locals, pagesSeen, lastSaved>>

\* A page attempt whose result is a non-empty list of records.
PageRecords ==
    /\ pc = "page"
    /\ \E out \in process_switcher(SOURCE, current_date, page_number) :
         /\ out.kind = "list" /\ ~Exhausted(out.contents)
         /\ lastCall' = Called(out)
         /\ altUsed' = (altUsed \/ UsesAlt(out))
         /\ article_metadata_dict' = StorePage(article_metadata_dict, current_date, out.contents)
         /\ total_articles' = total_articles + Len(out.contents)
         /\ pagesSeen' = Append(pagesSeen, out.contents)
    /\ page_number' = page_number + 1
    /\ attempts' = 0
    /\ pc' = "page_sleep"
    /\ sleeping' = PageSleep(SOURCE)
    /\ UNCHANGED <<config, normalizer, completed, clock, file, crash, start_date, day_range_days, i,
                   current_date, lastSaved>>

\* A page attempt whose result is a non-empty list of markup elements: the
\* date's entry is set to [] and content.keys() raises TypeError, caught.
PageTags ==
    /\ pc = "page"
    /\ \E out \in process_switcher(SOURCE, current_date, page_number) :
         /\ out.kind = "tags" /\ ~Exhausted(out.contents)
         /\ lastCall' = Called(out)
         /\ altUsed' = (altUsed \/ UsesAlt(out))
    /\ article_metadata_dict' = StorePage(article_metadata_dict, current_date, <<>>)
    /\ page_number' = PageAfterFailure(page_number)
    /\ attempts' = Counted(attempts)
    /\ pc' = "retry_sleep"
    /\ sleeping' = RETRY_SLEEP
    /\ UNCHANGED <<config, normalizer, completed, clock, file, crash, start_date, day_range_days, i,
                   current_date, total_articles, pagesSeen, lastSaved>>

\* A page attempt that raises an exception the loop catches.
PageRetry ==
    /\ pc = "page"
    /\ \E out \in process_switcher(SOURCE, current_date, page_number) :
         /\ out.kind = "raise" /\ Retryable(out.exc)
         /\ lastCall' = Called(out)
         /\ altUsed' = (altUsed \/ UsesAlt(out))
    /\ page_number' = PageAfterFailure(page_number)
    /\ attempts' = Counted(attempts)
    /\ pc' = "retry_sleep"
    /\ sleeping' = RETRY_SLEEP
    /\ UNCHANGED <<config, normalizer, completed, clock, file, crash, article_metadata_dict, start_date,
                   day_range_days, i, current_date, total_articles, pagesSeen, lastSaved>>

\* A page attempt that raises an exception nothing catches: the process ends.
PageFatal ==
    /\ pc = "page"
    /\ \E out \in process_switcher(SOURCE, current_date, page_number) :
         /\ out.kind = "raise" /\ ~Retryable(out.exc)
         /\ lastCall' = Called(out)
         /\ altUsed' = (altUsed \/ UsesAlt(out))
         /\ crash' = out.exc
    /\ pc' = "crashed"
    /\ attempts' = Counted(attempts)
    /\ UNCHANGED <<config, normalizer, completed, clock, file, locals, sleeping, pagesSeen, lastSaved>>

\* The end of time.sleep(5) or time.sleep(PAGE_SLEEP): back to the loop head.
SleepDone ==
    /\ pc \in {"retry_sleep", "page_sleep"}
    /\ pc' = "page"
    /\ sleeping' = 0
    /\ lastCall' = NoCall
    /\ UNCHANGED <<config, normalizer, completed, clock, file, crash, locals, pagesSeen, lastSaved, attempts,
                   altUsed>>

\* The end of time.sleep(DATE_SLEEP), then open(article_metadata_file, 'w'):
\* the file is created or truncated to zero bytes.
OpenForWrite ==
    /\ pc = "date_sleep"
    /\ pc' = "dump"
    /\ sleeping' = 0
    /\ file' = [exists |-> TRUE, complete |-> FALSE, members |-> <<>>]
    /\ UNCHANGED <<config, normalizer, completed, clock, crash, locals, pagesSeen, lastCall, lastSaved,
                   attempts, altUsed>>

\* json.dump and the close of the file, the progress line, the next date.
Dump ==
    /\ pc = "dump"
    /\ file' = [exists |-> TRUE, complete |-> TRUE,
                members |-> JsonDump(article_metadata_dict)]
    /\ lastSaved' = JsonDump(article_metadata_dict)
    /\ completed' = completed \cup {current_date}
    /\ EnterDate(i + 1, start_date, day_range_days)
    /\ UNCHANGED <<config, normalizer, clock, crash, article_metadata_dict, start_date,
                   day_range_days, altUsed>>

Running == {"page", "retry_sleep", "page_sleep", "date_sleep", "dump"}

\* What is on disk when the process dies at `at`: while json.dump writes, any
\* prefix of the text (a text json.load rejects); otherwise the file as it is.
FileAfterKill(at, f, dict) ==
    IF at = "dump"
    THEN {[exists |-> TRUE, complete |-> FALSE, members |-> SubSeq(JsonDump(dict), 1, n)] :
             n \in 0..Len(dict)}
    ELSE {f}

\* The process is terminated from outside and started again.
Kill ==
    /\ pc \in Running
    /\ file' \in FileAfterKill(pc, file, article_metadata_dict)
    /\ pc' = "start"
    /\ crash' = ""
    /\ Stopped
    /\ UNCHANGED <<config, normalizer, completed, clock, lastSaved>>

\* The process has ended (the loop is used up, or an exception) and is started again.
Restart ==
    /\ pc \in {"finished", "crashed"}
    /\ pc' = "start"
    /\ crash' = ""
    /\ Stopped
    /\ UNCHANGED <<config, normalizer, completed, clock, file, lastSaved>>

\* A day of wall-clock time passes.
Tick ==
    /\ clock < MaxDays
    /\ clock' = clock + 1
    /\ UNCHANGED <<config, normalizer, completed, file, pc, crash, locals, sleeping, pagesSeen, lastCall,
                   lastSaved, attempts, altUsed>>

Next ==
    \/ Load
    \/ PageEmpty
    \/ PageRecords
    \/ PageTags
    \/ PageRetry
    \/ PageFatal
    \/ SleepDone
    \/ OpenForWrite
    \/ Dump
    \/ Kill
    \/ Restart
    \/ Tick

Spec == Init /\ [][Next]_vars

\* One uninterrupted run of the process, started without a progress file.
NextRun ==
    \/ Load
    \/ PageEmpty
    \/ PageRecords
    \/ PageTags
    \/ PageRetry
    \/ PageFatal
    \/ SleepDone
    \/ OpenForWrite
    \/ Dump
    \/ Tick

SpecRun == Init /\ [][NextRun]_vars

\* The progress file a run leaves when the first day had one record on page
\* 1 and nothing on page 2.
FirstDayFile(startDate) ==
    [exists |-> TRUE, complete |-> TRUE,
     members |-> JsonDump(StorePage(<<>>, Timestamp(startDate),
                                    Listing(Timestamp(startDate), 1, 1)))]

\* Process start on the progress file of such an earlier run.
InitResume ==
    /\ SOURCE \in Sources
    /\ START_DATE \in StartDates(SOURCE)
    /\ clock = 1
    /\ file = FirstDayFile(START_DATE)
    /\ pc = "start"
    /\ crash = ""
    /\ article_metadata_dict = <<>>
    /\ start_date = 0
    /\ day_range_days = 0
    /\ i = 0
    /\ current_date = 0
    /\ page_number = 0
    /\ total_articles = 0
    /\ sleeping = 0
    /\ pagesSeen = <<>>
    /\ lastCall = NoCall
    /\ lastSaved = FirstDayFile(START_DATE).members
    /\ completed = {Timestamp(START_DATE)}
    /\ attempts = 0
    /\ altUsed = FALSE
    /\ NoText

\* One uninterrupted run of the process that resumes from a progress file.
SpecResume == InitResume /\ [][NextRun]_vars

\* A call of process_switcher and what the engine does with its result.
PageAttempt == PageEmpty \/ PageRecords \/ PageTags \/ PageRetry \/ PageFatal

\* One uninterrupted run in which the process keeps executing (every sleep
\* ends, every call returns, the file gets written) and in which a page that
\* is requested again and again eventually yields a list of records or the
\* empty list. The model's pages of a date are finitely many (MaxPages).
SpecLive ==
    /\ Init
    /\ [][NextRun]_vars
    /\ WF_vars(Load)
    /\ WF_vars(PageAttempt)
    /\ WF_vars(SleepDone)
    /\ WF_vars(OpenForWrite)
    /\ WF_vars(Dump)
    /\ SF_vars(PageEmpty \/ PageRecords)

\* ------------------------------------------------ the normalizers alone
engine == <<config, clock, file, pc, crash, locals, sleeping, pagesSeen, lastCall,
            lastSaved, attempts, altUsed, completed>>

\* An extractor holds the date text of a listing entry: a month token (the
\* detik extractors that call month_formatter) or kontan's relative time.
InitNormalizer ==
    /\ SOURCE \in {"detik", "kontan"}
    /\ START_DATE = ConfiguredStartDate(SOURCE)
    /\ clock = 1
    /\ file = NoFile
    /\ pc = "page"
    /\ crash = ""
    /\ article_metadata_dict = <<>>
    /\ start_date = Timestamp(START_DATE)
    /\ day_range_days = 1
    /\ i = 0
    /\ current_date = Timestamp(START_DATE)
    /\ page_number = 1
    /\ total_articles = 0
    /\ sleeping = 0
    /\ pagesSeen = <<>>
    /\ lastCall = NoCall
    /\ lastSaved = <<>>
    /\ completed = {}
    /\ attempts = 0
    /\ altUsed = FALSE
    /\ month_out = <<>>
    /\ timedelta_constructor = <<>>
    /\ IF SOURCE = "detik"
       THEN month_text \in MonthTokens /\ date_list_slice_temp = <<>>
       ELSE month_text = "" /\ date_list_slice_temp \in TimeTexts

\* date_list_slice[1] = month_formatter(date_list_slice[1]), and the same
\* call once more on what it returned.
FormatMonth ==
    /\ SOURCE = "detik"
    /\ Len(month_out) < 2
    /\ month_out' = Append(month_out,
                           month_formatter(IF month_out = <<>> THEN month_text
                                           ELSE month_out[Len(month_out)]))
    /\ UNCHANGED <<engine, month_text, date_list_slice_temp, timedelta_constructor>>

\* kontan's loop over search_keys for one listing entry.
ConstructTimedelta ==
    /\ SOURCE = "kontan"
    /\ timedelta_constructor = <<>>
    /\ timedelta_constructor' = TimedeltaConstructor(date_list_slice_temp)
    /\ UNCHANGED <<engine, month_text, month_out, date_list_slice_temp>>

NextNormalizer ==
    \/ FormatMonth
    \/ ConstructTimedelta

SpecNormalizer == InitNormalizer /\ [][NextNormalizer]_vars

\* ----------------------------------------------------------------- claims
\* The list stored under the float key of `date`, [] when there is none.
BucketOf(dict, date) ==
    IF DictHas(dict, FloatKey(date)) THEN DictGet(dict, FloatKey(date)) ELSE <<>>

RECURSIVE Concat(_)
Concat(lists) == IF lists = <<>> THEN <<>> ELSE Head(lists) \o Concat(Tail(lists))

\* The key strings json.load delivered to this run.
LoadedKeys(dict) == {dict[n].k.s : n \in {m \in 1..Len(dict) : dict[m].k.t = "str"}}

\* The member names of a written file.
MemberNames(members) == {members[n].k : n \in 1..Len(members)}

NumericMax(keys) == CHOOSE x \in {ParseFloat(k) : k \in keys} :
                        \A k \in keys : ParseFloat(k) <= x

\* The process is past the load and inside or after the date loop.
InLoop == pc \in Running \cup {"finished"}

\* A step that calls process_switcher and acts on what it gives.
PageStep == pc = "page" /\ pc' \in {"page_sleep", "retry_sleep", "date_sleep", "crashed"}

\* C1: when a date completes (page k was empty after non-empty pages 1..k-1),
\* the list stored under the date's key is the concatenation, in page order,
\* of the records of pages 1..k-1. Stated for the sources whose extractor
\* returns records only.
C1_BucketIsPageOrderConcatenation ==
    (pc = "date_sleep" /\ SOURCE # "bisnis")
        => BucketOf(article_metadata_dict, current_date) = Concat(pagesSeen)

\* C2: every date the run has completed is a member name of the file saved
\* after it, also a date whose first page was empty.
C2_CompletedDateIsAKey ==
    InLoop => \A n \in 0..(i - 1) :
                 FloatRepr(start_date + n * SecondsPerDay) \in MemberNames(lastSaved)

\* C3: with a non-empty loaded state the start date is the date of the
\* numerically greatest key; with none it is the configured START_DATE.
C3_StartDateIsNumericMaximum ==
    InLoop => start_date = (IF LoadedKeys(article_metadata_dict) = {}
                            THEN Timestamp(START_DATE)
                            ELSE NumericMax(LoadedKeys(article_metadata_dict)))

\* C4: once a resumed run has completed the resume date D, the saved file has
\* at most one member for D and it holds what this run's re-crawl of D stored
\* (nothing of the earlier bucket, also when the re-crawl found no record).
C4_ResumedDayIsReplaced ==
    (InLoop /\ i >= 1 /\ LoadedKeys(article_metadata_dict) # {})
        => /\ Cardinality({n \in 1..Len(lastSaved) :
                             lastSaved[n].k = FloatRepr(start_date)}) <= 1
           /\ \A n \in 1..Len(lastSaved) :
                 lastSaved[n].k = FloatRepr(start_date)
                     => lastSaved[n].v = BucketOf(article_metadata_dict, start_date)

\* C5: once the cnbc fallback extractor has been used, no later call of the
\* run invokes the primary extractor, and the fallback is first used only on
\* page 1 of the first date of the run.
C5_FallbackIsPermanent ==
    [][/\ (PageStep /\ altUsed)
            => \A n \in 1..Len(lastCall'.out.extractors) :
                  lastCall'.out.extractors[n] # "cnbcindonesia_processor"
       /\ (~altUsed /\ altUsed') => (page_number = 1 /\ i = 0)]_vars

\* A page attempt that ends in an exception the engine catches: raised by the
\* extractor, or by content.keys() on a markup element.
RetryableFailure ==
    /\ PageStep
    /\ \/ lastCall'.out.kind = "raise" /\ lastCall'.out.exc \in {"ValueError", "TypeError"}
       \/ lastCall'.out.kind = "tags"

\* C6: a retryable failure for page p of date d starts the 5-unit sleep with
\* page counter and date as they were, the sleep ends at the head of the
\* page loop for the same (d, p), and however many calls the page has had a
\* further retryable failure is handled the same way (nothing counts them).
C6_RetrySamePageUnbounded ==
    /\ [][/\ RetryableFailure
                => /\ pc' = "retry_sleep" /\ sleeping' = 5
                   /\ page_number' = page_number /\ current_date' = current_date
                   /\ i' = i
          /\ (pc = "retry_sleep" /\ pc' \notin {"retry_sleep", "start"})
                => /\ pc' = "page"
                   /\ page_number' = page_number /\ current_date' = current_date
                   /\ i' = i]_vars
    /\ [](pc = "page" => ENABLED PageRetry)

\* C6 witness: the second page of the second date has failed with ValueError
\* on a repeated call and the retry sleep is in progress.
C6_Witness ==
    /\ pc = "retry_sleep" /\ sleeping = 5
    /\ i = 1 /\ page_number = 2 /\ attempts >= 2
    /\ lastCall.page = 2 /\ lastCall.out.exc = "ValueError"

\* C7: a date's pagination ends on an empty result and on nothing else: the
\* inter-date sleep is entered only by a call that returned an empty list,
\* every empty list enters it, an error outcome never does, and after it the
\* next request is for a later date.
C7_PaginationEndsOnEmptyOnly ==
    [][/\ (pc # "date_sleep" /\ pc' = "date_sleep")
            => /\ PageStep
               /\ lastCall'.out.kind = "list" /\ lastCall'.out.contents = <<>>
       /\ (PageStep /\ lastCall'.out.kind = "list" /\ lastCall'.out.contents = <<>>)
            => pc' = "date_sleep"
       /\ (PageStep /\ lastCall'.out.kind \in {"raise", "tags"})
            => pc' # "date_sleep"
       /\ (pc \in {"date_sleep", "dump"} /\ pc' \notin {"date_sleep", "dump", "start"})
            => /\ pc' \in {"page", "finished"}
               /\ pc' = "page" => current_date' > current_date]_vars

\* C7 witness: two non-empty pages were stored and the third call returned
\* the empty list that ended the date.
C7_Witness ==
    /\ pc = "date_sleep"
    /\ Len(pagesSeen) = 2 /\ page_number = 3
    /\ lastCall.page = 3 /\ lastCall.out.kind = "list" /\ lastCall.out.contents = <<>>

\* C8: reading the progress file never raises to the engine.
C8_LoadNeverRaises == crash # "JSONDecodeError"

\* C9: whenever the process has been terminated, the file on disk is a
\* complete JSON text holding every member of the latest completed save.
C9_FileSurvivesTermination ==
    pc = "start"
        => /\ file.exists => file.complete
           /\ \A n \in 1..Len(lastSaved) :
                 \E m \in 1..Len(file.members) : file.members[m] = lastSaved[n]

\* A call of kontan_processor whose bounded retry ran out.
ExhaustedStep == PageStep /\ lastCall'.out.exhausted

\* C10 as stated: when kontan's bounded retry runs out the extractor returns
\* an empty list, the date contributes zero records, and the engine goes on
\* to the next date.
C10_ExhaustedDateHasNoRecords ==
    [][ExhaustedStep
          => /\ lastCall'.out.contents = <<>>
             /\ pc' = "date_sleep"
             /\ BucketOf(article_metadata_dict', current_date) = <<>>]_vars

\* C10 amended: when kontan's bounded retry (5 retries, 10 units after each)
\* runs out the extractor returns an empty list, the engine ends the date's
\* pagination without adding or removing a record (what earlier pages of the
\* date stored stays), and goes on to save and to the next date or the end.
C10_ExhaustedPageAddsNothing ==
    [][/\ ExhaustedStep
            => /\ lastCall'.out.fetches = 1 + 5 /\ lastCall'.out.waited = 5 * 10
               /\ lastCall'.out.contents = <<>>
               /\ pc' = "date_sleep"
               /\ article_metadata_dict' = article_metadata_dict
               /\ total_articles' = total_articles
       /\ (pc = "date_sleep" /\ lastCall.out.exhausted /\ pc' \notin {"date_sleep", "start"})
            => pc' = "dump" /\ article_metadata_dict' = article_metadata_dict
       /\ (pc = "dump" /\ lastCall.out.exhausted /\ pc' \notin {"dump", "start"})
            => /\ pc' \in {"page", "finished"}
               /\ pc' = "page" => /\ current_date' = current_date + SecondsPerDay
                                  /\ page_number' = 1]_vars

\* C10 witness: the retry ran out on page 2 of a date whose page 1 had
\* records, and the date's pagination has ended.
C10_Witness ==
    /\ pc = "date_sleep"
    /\ lastCall.out.exhausted /\ lastCall.page = 2
    /\ BucketOf(article_metadata_dict, current_date) # <<>>

\* C11: a bisnis page that has the listing container and only the "no news"
\* placeholder is returned as an empty list, and the engine ends the date on
\* it: no exception, no retry, nothing stored for the page.
C11_PlaceholderIsEmptyPage ==
    [][(PageStep /\ lastCall'.out.kind = "tags")
          => /\ lastCall'.out.contents = <<>>
             /\ pc' = "date_sleep"
             /\ article_metadata_dict' = article_metadata_dict]_vars

\* C12: whatever exception an extractor raises on a malformed page, the
\* engine sleeps and calls the same page again; the process does not end.
C12_EveryParseFailureIsRetried ==
    [][(PageStep /\ lastCall'.out.kind = "raise")
          => /\ pc' = "retry_sleep"
             /\ page_number' = page_number /\ current_date' = current_date]_vars

\* C13: a completely written progress file never has two members with the
\* same day-key, whatever runs (first, resumed, interrupted) came before.
C13_DayKeysAreUnique ==
    file.complete
        => \A m, n \in 1..Len(file.members) :
              m # n => file.members[m].k # file.members[n].k

\* C14: the file is written only once a date's pagination has ended (never
\* on a page attempt or between two of them), once for each completed date
\* (the date loop advances exactly with each completed write), and the
\* written object holds every entry of the dictionary, those loaded from
\* the earlier run included.
C14_SaveOncePerCompletedDate ==
    [][/\ file' # file
            => \/ pc = "date_sleep" /\ pc' = "dump"
               \/ pc = "dump" /\ pc' \in {"page", "finished"}
       /\ (pc = "dump" /\ pc' # "dump")
            => /\ i' = i + 1
               /\ file'.exists /\ file'.complete
               /\ Len(file'.members) = Len(article_metadata_dict)
               /\ \A n \in 1..Len(article_metadata_dict) :
                     \E m \in 1..Len(file'.members) :
                        /\ file'.members[m].k = JsonKey(article_metadata_dict[n].k)
                        /\ file'.members[m].v = article_metadata_dict[n].v
               /\ LoadedKeys(article_metadata_dict) \subseteq MemberNames(file'.members)
       /\ (InLoop /\ i' # i) => pc = "dump"
       /\ (pc = "date_sleep" /\ pc' # "date_sleep") => pc' = "dump"]_vars

\* C14 witness: a resumed run has completed its second date and the file
\* written for it holds the loaded entry and the ones of this run.
C14_Witness ==
    /\ pc \in {"page", "finished"} /\ i = 2
    /\ LoadedKeys(article_metadata_dict) # {}
    /\ file.complete /\ Len(file.members) >= 3

\* C15: the range is fixed by the load (from the resume date to the clock's
\* date at that moment) and stays as it is while the clock moves on; the
\* loop visits start_date, start_date + 1 day, ... one at a time, each once,
\* and ends after day_range_days dates; a date is entered with page 1 and the
\* page number grows by one with each non-empty page of records and with
\* nothing else.
C15_RangeFixedDatesAndPagesInOrder ==
    [][/\ (pc = "start" /\ pc' \in {"page", "finished"})
            => /\ start_date' = (IF file.exists /\ file.members # <<>>
                                 THEN ParseFloat(file.members[1].k)
                                 ELSE Timestamp(START_DATE))
               /\ day_range_days' = (Now - start_date') \div SecondsPerDay
               /\ i' = 0
       /\ (InLoop /\ InLoop')
            => /\ day_range_days' = day_range_days /\ start_date' = start_date
               /\ i' # i => (i' = i + 1 /\ pc' \in {"page", "finished"})
       /\ pc' = "page"
            => /\ i' < day_range_days'
               /\ current_date' = start_date' + i' * SecondsPerDay
       /\ pc' = "finished" => i' = day_range_days'
       /\ (pc \in {"start", "dump"} /\ pc' = "page") => page_number' = 1
       /\ PageStep
            => page_number' = (IF lastCall'.out.kind = "list" /\ lastCall'.out.contents # <<>>
                               THEN page_number + 1 ELSE page_number)
       /\ (pc \in {"retry_sleep", "page_sleep", "date_sleep"} /\ pc' \notin {"start"})
            => page_number' = page_number]_vars

\* C15 witness: the run has ended after the dates of the range fixed at its
\* start, the last one with two non-empty pages, although the clock has
\* moved on a day since.
C15_Witness ==
    /\ pc = "finished" /\ i = day_range_days /\ i >= 1
    /\ page_number = 3
    /\ DayRange(Now, start_date) > day_range_days

\* C16 as stated: every call of process_switcher issues exactly one fetch,
\* for every source.
C16_ExactlyOneFetchPerCall ==
    [][PageStep => lastCall'.out.fetches = 1]_vars

\* C16 amended: every call issues at least one fetch; exactly one for detik,
\* kompas and bisnis and for cnbc when only the primary extractor ran; two
\* for cnbc when the fallback extractor ran after the primary one; for
\* kontan one plus a retry for each non-success response, at most 5 retries
\* (6 fetches and 5 waits of 10 when none succeeds).
C16_FetchesPerCall ==
    [][PageStep
          => /\ lastCall'.out.fetches >= 1
             /\ SOURCE \in {"detik", "kompas", "bisnis"} => lastCall'.out.fetches = 1
             /\ SOURCE = "cnbc"
                  => /\ lastCall'.out.fetches = Len(lastCall'.out.extractors)
                     /\ lastCall'.out.fetches = (IF UsesAlt(lastCall'.out) THEN 2 ELSE 1)
             /\ SOURCE = "kontan"
                  => /\ lastCall'.out.fetches \in 1..(1 + 5)
                     /\ lastCall'.out.exhausted
                          => (lastCall'.out.fetches = 1 + 5 /\ lastCall'.out.waited = 5 * 10)
                     /\ (~lastCall'.out.exhausted /\ lastCall'.out.fetches >= 2)
                          => lastCall'.out.waited = 10 * (lastCall'.out.fetches - 2)
                     /\ lastCall'.out.fetches = 1 => lastCall'.out.waited = 0]_vars

\* C16 witness: a call of kontan's extractor got records from its third
\* fetch, after two non-success responses.
C16_Witness ==
    /\ SOURCE = "kontan" /\ pc = "page_sleep"
    /\ lastCall.out.fetches = 3 /\ lastCall.out.waited = 10
    /\ lastCall.out.kind = "list" /\ lastCall.out.contents # <<>>

\* C20: while the inter-date sleep is in progress the file on disk already
\* holds the dictionary with the date whose pagination has just ended.
C20_SavedBeforeDateSleep ==
    pc = "date_sleep"
        => /\ file.exists /\ file.complete
           /\ file.members = JsonDump(article_metadata_dict)

\* C18: month_formatter gives May, Aug, Oct, Dec for Mei, Agu, Okt, Des and
\* every other token back as it is, and a second call on its result gives
\* the same result.
C18_MonthFormatterMapsAndIsIdempotent ==
    /\ Len(month_out) >= 1
         => /\ month_text = "Mei" => month_out[1] = "May"
            /\ month_text = "Agu" => month_out[1] = "Aug"
            /\ month_text = "Okt" => month_out[1] = "Oct"
            /\ month_text = "Des" => month_out[1] = "Dec"
            /\ month_text \notin {"Mei", "Agu", "Okt", "Des"} => month_out[1] = month_text
    /\ Len(month_out) = 2 => month_out[2] = month_out[1]

\* C18 witness: 'Okt' was formatted to 'Oct' and formatting 'Oct' gave 'Oct'.
C18_Witness ==
    month_text = "Okt" /\ month_out = <<"Oct", "Oct">>

\* The text has the keyword search_keys[k].
HasKey(k) == \E n \in 1..Len(date_list_slice_temp) : date_list_slice_temp[n] = search_keys[k]

\* C19: each of the five offsets is 0 when its keyword is not in the text;
\* when it is, the token just before the keyword is a number and the offset
\* is that number (never 0 for want of one, never a token from elsewhere).
C19_OffsetIsTokenBeforeKeyword ==
    timedelta_constructor # <<>>
        => \A k \in 1..5 :
              /\ ~HasKey(k) => timedelta_constructor[k] = 0
              /\ HasKey(k)
                   => /\ timedelta_constructor[k] # 0
                      /\ \E n \in 2..Len(date_list_slice_temp) :
                            /\ date_list_slice_temp[n] = search_keys[k]
                            /\ date_list_slice_temp[n - 1] = IntStr(timedelta_constructor[k])

\* C17: when failing pages eventually stop failing and dates have finitely
\* many pages, the run eventually ends with the loop used up, a save made for
\* every date of the range; and a retryable failure never moves the engine to
\* another page or date or to the end.
C17_RunEventuallyFinishes ==
    /\ <>(pc = "finished" /\ i = day_range_days)
    /\ [][RetryableFailure
            => /\ pc' = "retry_sleep"
               /\ page_number' = page_number /\ i' = i]_vars

\* The dates from START_DATE up to, not including, the timestamp `date`.
DatesBefore(date) ==
    {Timestamp(START_DATE) + n * SecondsPerDay : n \in 0..MaxDays} \cap 0..(date - 1)

\* C24: whatever runs and interruptions came before, a run never starts at,
\* and never works on, a date with an unattempted date behind it: every date
\* from START_DATE up to the run's start date, and up to the date in hand,
\* has been paginated to the end and saved by some run.
C24_NoDateSkippedBehindResumePoint ==
    /\ InLoop => DatesBefore(start_date) \subseteq completed
    /\ pc \in Running => DatesBefore(current_date) \subseteq completed

\* C24 witness: a run resumed from a file that holds two dates has started
\* at the later one and is about to request its first page.
C24_Witness ==
    /\ pc = "page" /\ i = 0
    /\ start_date = Timestamp(START_DATE) + SecondsPerDay
    /\ Cardinality(LoadedKeys(article_metadata_dict)) = 2
    /\ completed = DatesBefore(start_date + SecondsPerDay)

\* C21: while a run works on a date, every entry of the dictionary under
\* another key (loaded from the file or stored for an earlier date of the
\* run) stays where and as it is; an entry that appears or changes is the
\* one under the key of the date in hand.
C21_OtherDayBucketsUntouched ==
    [][(pc \in Running /\ pc' \in Running \cup {"finished"})
          => /\ Len(article_metadata_dict') >= Len(article_metadata_dict)
             /\ \A n \in 1..Len(article_metadata_dict) :
                   article_metadata_dict[n].k # FloatKey(current_date)
                       => article_metadata_dict'[n] = article_metadata_dict[n]
             /\ \A n \in 1..Len(article_metadata_dict') :
                   (n > Len(article_metadata_dict)
                       \/ article_metadata_dict'[n] # article_metadata_dict[n])
                       => article_metadata_dict'[n].k = FloatKey(current_date)]_vars

\* C21 witness: a resumed run has stored a page of its second date next to
\* the loaded entry and the entry of its first date.
C21_Witness ==
    /\ pc = "page_sleep" /\ i = 1
    /\ Len(article_metadata_dict) = 3
    /\ article_metadata_dict[1].k.t = "str"
    /\ article_metadata_dict[3].k = FloatKey(current_date)
    /\ article_metadata_dict[3].v # <<>>

\* C22: a page attempt that ends in a caught ValueError or TypeError leaves
\* the dictionary (the bucket of the date in hand included), the page number
\* and the date's article count as they were.
C22_RetryableFailureChangesNothing ==
    [][RetryableFailure
          => /\ article_metadata_dict' = article_metadata_dict
             /\ page_number' = page_number
             /\ total_articles' = total_articles]_vars

\* The members of a written file under the day-key of `date`.
SavedUnder(members, date) == {n \in 1..Len(members) : members[n].k = FloatRepr(date)}

\* C23: when a date is saved, the count printed for it (total_articles) is
\* the number of records of the date's member in the file just written, 0
\* when the file has no member for the date.
C23_ReportedCountIsBucketLength ==
    [][(pc = "dump" /\ pc' \in {"page", "finished"})
          => IF SavedUnder(file'.members, current_date) = {}
             THEN total_articles = 0
             ELSE \E n \in SavedUnder(file'.members, current_date) :
                     Len(file'.members[n].v) = total_articles]_vars

====
